---- MODULE Spec2Model ----
(***************************************************************************)
(* Model of expand_indirect.py: the dependency closure (expand_proj_deps), *)
(* the binary-to-source resolver (get_project_dependencies,                *)
(* mirror_repository and the BIN2PKG cache) and the repository mirror      *)
(* (RepoMirror.mirror / _mirror / extract_cpio_stream).                    *)
(***************************************************************************)
EXTENDS Integers, Sequences, FiniteSets, TLC

(***************************************************************************)
(* Values                                                                  *)
(***************************************************************************)

\* Python's None (dict.get miss, deppkg unset, hdr = None).
None == "None"

\* The project of main()'s call; ORIGIN is a project a binary was built in
\* before being inherited (the project part of its DISTURL).
GA == "SUSE:SLE-15-SP5:GA"
ORIGIN == "SUSE:SLE-15:GA"

Projects == {GA, ORIGIN}
Repositories == {"standard", "update"}
Pkgs == {"alsa", "glibc", "zlib", "zlib:mini"}
BinNames == {"libasound2", "glibc-devel", "libz1", "ghost"}

\* (project, repository, pkgname): the element of expanded_prjpkg / work_prjpkgs.
\* Line 291 can also add (project, repository, deppkg) only with deppkg a
\* package name.
Targets == {GA} \X Repositories \X Pkgs

\* A <bdep project= repository= name=/> element of a _buildenv answer.
Bdep(p, r, n) == [project |-> p, repository |-> r, name |-> n]

Bdeps ==
  { Bdep(GA, "standard", "glibc-devel"),
    Bdep(GA, "standard", "libasound2"),
    Bdep(GA, "standard", "libz1"),
    Bdep(GA, "standard", "ghost"),
    Bdep(GA, "update", "libz1") }

\* Keys of BIN2PKG: (project, binary name).
Keys == Projects \X BinNames

(***************************************************************************)
(* Bounds                                                                  *)
(***************************************************************************)

\* Number of <bdep> elements in the whole remote graph.
MaxEdges == 3
\* Number of calls of expand_proj_deps in one process.
MaxRuns == 2
\* The _buildenv requests counted per target and run: the count stops there.
MaxFetches == 2

(***************************************************************************)
(* The remote build service (unchanged during a behaviour)                 *)
(***************************************************************************)

\* _builddepinfo?view=pkgnames of (project, repository, x86_64): the
\* <subpkg> -> <package name=> associations, as a set of <<subpkg, package>>.
BuildDepInfo(project, repository) ==
  IF <<project, repository>> = <<GA, "standard">>
    THEN { <<"glibc-devel", "glibc">>, <<"libasound2", "alsa">> }
  ELSE IF <<project, repository>> = <<GA, "update">>
    THEN { <<"libz1", "zlib:mini">> }
  ELSE {}

\* Line 214, src_package.partition(':')[0]: the name up to the first colon,
\* which strips the multibuild flavor; for the package names of this graph.
StripFlavor(name) == IF name = "zlib:mini" THEN "zlib" ELSE name

\* What rpm reads from a mirrored header file: RPMTAG_NAME and, from
\* RPMTAG_DISTURL, the source project and the source package as the URL
\* names it (the multibuild flavor included); readable is FALSE when
\* hdrFromFdno raises rpm.error (hdr = None).
Header(n, sp, pkg, ok) ==
  [name |-> n, src_project |-> sp, src_package |-> pkg, readable |-> ok]

\* The header files of the mirror directory of (project, repository) after
\* RepoMirror.mirror has returned: one per binary of the remote listing.
MirroredHeaders(project, repository) ==
  IF <<project, repository>> = <<GA, "standard">>
    THEN { Header("glibc-devel", GA, "glibc", TRUE),
           Header("libasound2", GA, "alsa", TRUE),
           Header("libz1", ORIGIN, "zlib:mini", TRUE) }
  ELSE IF <<project, repository>> = <<GA, "update">>
    THEN { Header("libz1", ORIGIN, "zlib:mini", FALSE) }
  ELSE {}

(***************************************************************************)
(* The repository mirror: values                                           *)
(***************************************************************************)

\* Number of processes that call RepoMirror.mirror on the same destdir.
NumProcs == 2
\* Number of calls of RepoMirror.mirror made in all.
MaxCalls == 2

Procs == 1..NumProcs
\* Nobody holds the flock of destdir/.lock.
NoProc == 0

\* hdrmd5 values (each stands for 32 hex digits); Absent: not in the listing.
Md5s == { "aaaa", "bbbb" }
Absent == "absent"

\* The hdrmd5 values a binary of that stem takes in the remotes and the
\* directories the model starts from: glibc is the binary that was rebuilt.
Md5sOf(stem) == IF stem = "glibc" THEN Md5s ELSE { "aaaa" }

\* The name attribute of a <binary> of the listing, as stem and suffix:
\* "glibc.rpm" is BinName("glibc", ".rpm").
BinName(stem, suffix) == [stem |-> stem, suffix |-> suffix]

\* The <binary> names of the remote listing, in the order of the answer.
ListOrder ==
  << BinName("glibc", ".rpm"), BinName("glibc-debuginfo", ".rpm"),
     BinName("zlib", ".rpm") >>

ListNames == { ListOrder[i] : i \in DOMAIN ListOrder }

\* A file name of destdir, "{md5}-{stem}{suffix}".
FileName(md5, stem, suffix) == [md5 |-> md5, stem |-> stem, suffix |-> suffix]

\* destdir/.lock (line 145).
LockFile == FileName("", ".lock", "")

\* Line 127: the batch size of the downloads.
ChunkSize == 50

\* name.endswith('.rpm'), lines 103 and 109.
EndsWithRpm(name) == name.suffix = ".rpm"

\* nameignorere.search(name), line 103, with the nameignore of line 180:
\* '-debug(info|source|info-32bit).rpm$'.
NameIgnored(name) ==
  /\ name.suffix = ".rpm"
  /\ name.stem \in { "glibc-debuginfo" }

(***************************************************************************)
(* State                                                                   *)
(***************************************************************************)
VARIABLES
  be_strict_with_errors,  \* module global, line 30; a caller may set it
  fetches,          \* history: the _buildenv requests of the run, per target
  start,            \* the (project, repository, pkgname) expand_proj_deps is called with
  buildenv,         \* remote: the _buildenv answer of each target
  asked,            \* remote: the targets whose _buildenv was asked for
  BIN2PKG,          \* module global: (project, binary) -> source package
  gpd_cache,        \* functools.cache of get_project_dependencies: keys computed
  mirror_cache,     \* functools.cache of mirror_repository: keys computed
  expanded_prjpkg,  \* local of expand_proj_deps
  work_prjpkgs,     \* local of expand_proj_deps
  project_deps,     \* local of expand_proj_deps: its keys
  bdeps,            \* <bdep> elements of the current buildenv still to iterate
  deppkg,           \* local of expand_proj_deps
  pc,               \* "loop" | "edges" | "returned" | "raised"
  raised,           \* the exception that ended the run, or None
  results,          \* the values returned by the calls made so far in this process
  \* RepoMirror.mirror, called by several processes on one destdir
  listing,          \* remote: hdrmd5 of each <binary> name of the listing, or Absent
  destdir,          \* the file names in destdir
  lock,             \* the process holding the flock of destdir/.lock, or NoProc
  mpc,              \* per process: "idle" | "locked" | "delete" | "download" |
                    \*   "extract" | "returned" | "raised"
  exc,              \* per process: the exception its last call raised, or None
  remotebins,       \* per process: local of _mirror, the (file name, binary) items
  to_delete,        \* per process: local of _mirror
  chunk,            \* per process: the loop variable of line 127
  stream,           \* per process: the archive members still to read from req
  calls,            \* the number of calls of mirror made so far
  synced,           \* history: a call returned normally and no file changed since
  insync,           \* history, per process: synced held when its call listed destdir
  unlinked,         \* history, per process: the files its call unlinked
  linked,           \* history, per process: the files its call linked into destdir
  requests,         \* history, per process: the download requests its call issued
  \* extract_cpio_stream, byte by byte
  archive,          \* input: the records of the stream and what follows them
  stream_bytes,     \* stream: the bytes of the archive
  tell,             \* stream.tell(): the number of bytes read
  xpc,              \* where extract_cpio_stream is
  hdr,              \* hdr: namesize, filesize and filename of the current record
  tmpfile,          \* the NamedTemporaryFile: bytes in its buffer, bytes in the file
  extracted,        \* destdir: the final names linked, in order, and their files
  xerr,             \* the exception that left extract_cpio_stream
  \* extract_update_section
  package_name,     \* argument
  infile,           \* argument: the lines of the file, as bytes
  lineno,           \* the number of lines the for loop has taken from infile
  inupdatesection,  \* local
  update_section,   \* local: the text collected
  upc,              \* where extract_update_section is
  \* _mirror, lines 122-139: the loop over the batches
  binaries,         \* local: remotebins.values(), the binaries queued for download
  range_chunk,      \* local chunk: the value range(0, len(binaries), 50) is at
  queries,          \* the binaries each http_GET of line 132 named, in order
  bpc               \* where the loop is

cvars == << be_strict_with_errors, fetches, start, buildenv, asked, BIN2PKG, gpd_cache, mirror_cache, expanded_prjpkg,
            work_prjpkgs, project_deps, bdeps, deppkg, pc, raised, results >>

mvars == << listing, destdir, lock, mpc, exc, remotebins, to_delete, chunk, stream,
            calls, synced, insync, unlinked, linked, requests >>

xvars == << archive, stream_bytes, tell, xpc, hdr, tmpfile, extracted, xerr >>

uvars == << package_name, infile, lineno, inupdatesection, update_section, upc >>

bvars == << binaries, range_chunk, queries, bpc >>

vars == << cvars, mvars, xvars, uvars, bvars >>

\* No process calls mirror: the mirror's variables while expand_proj_deps is
\* looked at alone.
MirrorQuiet ==
  /\ listing = [ n \in ListNames |-> Absent ]
  /\ destdir = {}
  /\ lock = NoProc
  /\ mpc = [ p \in Procs |-> "idle" ]
  /\ exc = [ p \in Procs |-> None ]
  /\ remotebins = [ p \in Procs |-> << >> ]
  /\ to_delete = [ p \in Procs |-> {} ]
  /\ chunk = [ p \in Procs |-> 0 ]
  /\ stream = [ p \in Procs |-> << >> ]
  /\ calls = 0
  /\ synced = FALSE
  /\ insync = [ p \in Procs |-> FALSE ]
  /\ unlinked = [ p \in Procs |-> {} ]
  /\ linked = [ p \in Procs |-> {} ]
  /\ requests = [ p \in Procs |-> 0 ]

\* expand_proj_deps has not been called: its variables while the mirror is
\* looked at alone.
ClosureQuiet ==
  /\ be_strict_with_errors = FALSE
  /\ fetches = [ t \in Targets |-> 0 ]
  /\ start = <<GA, "standard", "alsa">>
  /\ buildenv = [ t \in Targets |-> << >> ]
  /\ asked = {}
  /\ BIN2PKG = [ k \in Keys |-> None ]
  /\ gpd_cache = {}
  /\ mirror_cache = {}
  /\ expanded_prjpkg = {}
  /\ work_prjpkgs = {}
  /\ project_deps = {}
  /\ bdeps = << >>
  /\ deppkg = None
  /\ pc = "idle"
  /\ raised = None
  /\ results = << >>

\* No header is parsed; no temporary file is open.
NoHdr == [ namesize |-> 0, filesize |-> 0, filename |-> << >> ]
NoTmp == [ open |-> FALSE, buf |-> << >>, data |-> << >> ]

\* extract_cpio_stream has not been called: its variables while the other
\* operations are looked at.
CpioQuiet ==
  /\ archive = [ records |-> << >>, extra |-> << >> ]
  /\ stream_bytes = << >>
  /\ tell = 0
  /\ xpc = "idle"
  /\ hdr = NoHdr
  /\ tmpfile = NoTmp
  /\ extracted = << >>
  /\ xerr = None

\* extract_update_section has not been called.
UpdateQuiet ==
  /\ package_name = << >>
  /\ infile = << >>
  /\ lineno = 0
  /\ inupdatesection = FALSE
  /\ update_section = << >>
  /\ upc = "idle"

\* _mirror is not at its loop over the batches.
BatchQuiet ==
  /\ binaries = << >>
  /\ range_chunk = 0
  /\ queries = << >>
  /\ bpc = "idle"

\* The _buildenv answer as the build service holds it. The answer of a target
\* is drawn when it is first asked for and stays what it is from then on; a
\* target never asked for counts no <bdep>.
BuildEnvOf(t) == IF t \in asked THEN buildenv[t] ELSE << >>

Range(s) == { s[i] : i \in DOMAIN s }

RECURSIVE SumLen(_)
SumLen(S) ==
  IF S = {} THEN 0
  ELSE LET t == CHOOSE x \in S : TRUE
       IN Len(BuildEnvOf(t)) + SumLen(S \ {t})

\* Lists of distinct <bdep> elements of at most k elements.
BdepLists(k) ==
  { s \in UNION { [1..n -> Bdeps] : n \in 0..k } :
      \A i, j \in DOMAIN s : i # j => s[i] # s[j] }

\* The answers http_GET(.../_buildenv) can give for t.
BuildEnvAnswers(t) ==
  IF t \in asked THEN { buildenv[t] }
  ELSE BdepLists(MaxEdges - SumLen(Targets))

(***************************************************************************)
(* The resolver                                                            *)
(***************************************************************************)

\* get_project_dependencies, lines 168-172: every <subpkg> of the answer is
\* written to BIN2PKG under (project, subpkg).
LoadDepInfo(b2p, project, repository) ==
  [ k \in Keys |->
      IF k[1] = project /\ \E e \in BuildDepInfo(project, repository) : e[1] = k[2]
        THEN (CHOOSE e \in BuildDepInfo(project, repository) : e[1] = k[2])[2]
        ELSE b2p[k] ]

\* mirror_repository, lines 208-218, for the header files hs: each writes
\* (src_project, name) and (project, name).
IndexHeaders(b2p, project, hs) ==
  [ k \in Keys |->
      IF \E h \in hs : h.name = k[2] /\ k[1] \in {project, h.src_project}
        THEN StripFlavor((CHOOSE h \in hs :
                            h.name = k[2] /\ k[1] \in {project, h.src_project}).src_package)
        ELSE b2p[k] ]

\* The popped target is not recorded as expanded.
MarkExpandedForgotten(t) == expanded_prjpkg

\* The start target is recorded in the place of the popped one.
MarkExpandedStartOnly(t) == expanded_prjpkg \cup { start }

\* Line 233: expanded_prjpkg.add(prjpkg).
MarkExpanded(t) == expanded_prjpkg \cup {t}

\* The target is added without the test of deppkg against None.
AddToWorkUnchecked(b, dp) ==
  IF <<b.project, b.repository, dp>> \notin expanded_prjpkg
    THEN work_prjpkgs \cup { <<b.project, b.repository, dp>> }
    ELSE work_prjpkgs

\* The target is added without the test against expanded_prjpkg.
AddToWorkRevisit(b, dp) ==
  IF dp # None
    THEN work_prjpkgs \cup { <<b.project, b.repository, dp>> }
    ELSE work_prjpkgs

\* Lines 286-293: the edge's target is added to the work set when deppkg was
\* found and the target is not expanded yet.
AddToWork(b, dp) ==
  IF dp # None /\ <<b.project, b.repository, dp>> \notin expanded_prjpkg
    THEN work_prjpkgs \cup { <<b.project, b.repository, dp>> }
    ELSE work_prjpkgs

(***************************************************************************)
(* expand_proj_deps                                                        *)
(***************************************************************************)

Starts == { <<GA, "standard", "alsa">>, <<GA, "standard", "glibc">> }

Init ==
  /\ be_strict_with_errors \in BOOLEAN
  /\ fetches = [ t \in Targets |-> 0 ]
  /\ start \in Starts
  /\ buildenv = [ t \in Targets |-> << >> ]
  /\ asked = {}
  /\ BIN2PKG = [ k \in Keys |-> None ]
  /\ gpd_cache = {}
  /\ mirror_cache = {}
  /\ expanded_prjpkg = {}
  /\ work_prjpkgs = { start }
  /\ project_deps = {}
  /\ bdeps = << >>
  /\ deppkg = None
  /\ pc = "loop"
  /\ raised = None
  /\ results = << >>
  /\ MirrorQuiet
  /\ CpioQuiet
  /\ UpdateQuiet
  /\ BatchQuiet

\* The exception is caught and logged, and the loop goes on.
RaiseSwallowed(e) ==
  /\ pc' = "loop"
  /\ raised' = e

\* The run ends with an exception: nothing is returned.
Raise(e) ==
  /\ pc' = "raised"
  /\ raised' = e

\* Lines 229-243: one pass of the while loop up to the _buildenv answer.
Pop ==
  /\ pc = "loop"
  /\ work_prjpkgs # {}
  /\ \E prjpkg \in work_prjpkgs :
       /\ work_prjpkgs' = work_prjpkgs \ {prjpkg}
       /\ IF prjpkg \in expanded_prjpkg
            THEN UNCHANGED << buildenv, asked, expanded_prjpkg, bdeps, pc, raised,
                              fetches >>
            ELSE /\ expanded_prjpkg' = MarkExpanded(prjpkg)
                 /\ fetches' = [fetches EXCEPT ![prjpkg] =
                                  IF @ < MaxFetches THEN @ + 1 ELSE @]
                 /\ \/ \* http_GET raises
                       /\ Raise("HTTPError")
                       /\ UNCHANGED << buildenv, asked, bdeps >>
                    \/ \E answer \in BuildEnvAnswers(prjpkg) :
                         /\ buildenv' = [buildenv EXCEPT ![prjpkg] = answer]
                         /\ asked' = asked \cup {prjpkg}
                         /\ bdeps' = answer
                         /\ pc' = IF answer = << >> THEN "loop" ELSE "edges"
                         /\ UNCHANGED raised
  /\ UNCHANGED << be_strict_with_errors, start, BIN2PKG, gpd_cache, mirror_cache,
                  project_deps, deppkg, results >>
  /\ UNCHANGED << mvars, xvars, uvars, bvars >>

\* Lines 245-293: one pass of the for loop over the <bdep> elements.
Edge ==
  /\ pc = "edges"
  /\ bdeps # << >>
  /\ LET binary == Head(bdeps)
         gpdkey == <<binary.project, binary.repository>>
         \* line 246, and functools.cache: the _builddepinfo request is made
         askdep == binary.project \notin project_deps /\ gpdkey \notin gpd_cache
         afterT1 == IF askdep
                      THEN LoadDepInfo(BIN2PKG, binary.project, binary.repository)
                      ELSE BIN2PKG
         found == afterT1[<<binary.project, binary.name>>]
         \* line 253, and functools.cache: the mirror and the indexing run
         askmirror == found = None /\ gpdkey \notin mirror_cache
         hs == MirroredHeaders(binary.project, binary.repository)
         next == /\ bdeps' = Tail(bdeps)
                 /\ pc' = IF Tail(bdeps) = << >> THEN "loop" ELSE "edges"
                 /\ UNCHANGED raised
     IN \/ \* get_project_dependencies: http_GET raises
           /\ askdep
           /\ Raise("HTTPError")
           /\ UNCHANGED << BIN2PKG, gpd_cache, mirror_cache, project_deps, bdeps,
                           deppkg, work_prjpkgs >>
        \/ \* RepoMirror.mirror raises
           /\ askmirror
           /\ Raise("MirrorError")
           /\ BIN2PKG' = afterT1
           /\ gpd_cache' = IF askdep THEN gpd_cache \cup {gpdkey} ELSE gpd_cache
           /\ project_deps' = project_deps \cup {binary.project}
           /\ deppkg' = found
           /\ UNCHANGED << mirror_cache, bdeps, work_prjpkgs >>
        \/ \* line 208: hdr is None for an unreadable header file
           /\ askmirror
           /\ \E bad \in { h \in hs : ~h.readable } :
                \E done \in SUBSET { h \in hs : h.readable } :
                  BIN2PKG' = IndexHeaders(afterT1, binary.project, done)
           /\ Raise("TypeError")
           /\ gpd_cache' = IF askdep THEN gpd_cache \cup {gpdkey} ELSE gpd_cache
           /\ project_deps' = project_deps \cup {binary.project}
           /\ deppkg' = found
           /\ UNCHANGED << mirror_cache, bdeps, work_prjpkgs >>
        \/ \* no exception
           /\ askmirror => \A h \in hs : h.readable
           /\ BIN2PKG' = IF askmirror
                           THEN IndexHeaders(afterT1, binary.project, hs)
                           ELSE afterT1
           /\ gpd_cache' = IF askdep THEN gpd_cache \cup {gpdkey} ELSE gpd_cache
           /\ mirror_cache' = IF askmirror THEN mirror_cache \cup {gpdkey}
                                           ELSE mirror_cache
           /\ project_deps' = project_deps \cup {binary.project}
           /\ deppkg' = found
           /\ work_prjpkgs' = AddToWork(binary, found)
           /\ next
  /\ UNCHANGED << be_strict_with_errors, fetches, start, buildenv, asked,
                  expanded_prjpkg, results >>
  /\ UNCHANGED << mvars, xvars, uvars, bvars >>

\* Line 295: the work set is empty.
Return ==
  /\ pc = "loop"
  /\ work_prjpkgs = {}
  /\ pc' = "returned"
  /\ results' = Append(results, expanded_prjpkg)
  /\ UNCHANGED << be_strict_with_errors, fetches, start, buildenv, asked, BIN2PKG,
                  gpd_cache, mirror_cache, expanded_prjpkg, work_prjpkgs,
                  project_deps, bdeps, deppkg, raised >>
  /\ UNCHANGED << mvars, xvars, uvars, bvars >>

\* expand_proj_deps is called again in the same process, with the same
\* arguments: lines 224-228. The module globals and the memoized results stay.
CallAgain ==
  /\ pc = "returned"
  /\ Len(results) < MaxRuns
  /\ expanded_prjpkg' = {}
  /\ work_prjpkgs' = { start }
  /\ project_deps' = {}
  /\ bdeps' = << >>
  /\ deppkg' = None
  /\ pc' = "loop"
  /\ fetches' = [ t \in Targets |-> 0 ]
  /\ UNCHANGED << be_strict_with_errors, start, buildenv, asked, BIN2PKG, gpd_cache,
                  mirror_cache, raised, results >>
  /\ UNCHANGED << mvars, xvars, uvars, bvars >>

Next == Pop \/ Edge \/ Return \/ CallAgain

Spec == Init /\ [][Next]_vars

\* The run is one sequential thread: it takes its next step while it has one.
FairSpec == Spec /\ WF_vars(Next)

(***************************************************************************)
(* RepoMirror                                                              *)
(***************************************************************************)

\* Lines 100-105: the items of remotebins built from the listing, in its
\* order: the file name f'{hdrmd5}-{name}' and the binary name[:-4].
ListedBins ==
  LET keep(name) == /\ listing[name] # Absent
                    /\ EndsWithRpm(name)
                    /\ ~NameIgnored(name)
      item(name) == [ file |-> FileName(listing[name], name.stem, name.suffix),
                      binary |-> name.stem ]
      F[i \in 0..Len(ListOrder)] ==
        IF i = 0 THEN << >>
        ELSE IF keep(ListOrder[i]) THEN Append(F[i - 1], item(ListOrder[i]))
        ELSE F[i - 1]
  IN F[Len(ListOrder)]

\* No file of destdir counts as stale.
StaleFilesNone(dir, bins) == {}

\* A file counts as listed as soon as the listing holds its name, whatever
\* the checksum.
StaleFilesByName(dir, bins) ==
  { f \in dir : f.suffix = ".rpm" /\ \A i \in DOMAIN bins : bins[i].binary # f.stem }

\* Lines 108-115: the files of destdir named *.rpm that the listing does not
\* hold are stale.
StaleFiles(dir, bins) ==
  { f \in dir : f.suffix = ".rpm" /\ \A i \in DOMAIN bins : bins[i].file # f }

\* Lines 112-113: the items whose file is in destdir already are dropped.
MissingBins(dir, bins) ==
  SelectSeq(bins, LAMBDA item : item.file \notin dir)

\* The member is stored under its own name, "{name}-{md5}.rpm".
DestPathAsNamed(member) == FileName(member.name, member.md5, ".rpm")

\* Lines 70-72: the archive member "<name>-<md5>" is stored as
\* "{md5}-{name}.rpm".
DestPath(member) == FileName(member.md5, member.name, ".rpm")

\* The archive member the build service sends for a requested binary: its
\* header, named "<name>-<hdrmd5>" with the hdrmd5 of the listing.
Member(binary) ==
  [ kind |-> "binary", name |-> binary,
    md5 |-> listing[BinName(binary, ".rpm")] ]

\* The end of the archive, and the members that make extract_cpio_stream
\* raise: the error channel (line 66) and a header of another magic (line 53).
Trailer == [ kind |-> "TRAILER!!!", name |-> "", md5 |-> "" ]
ErrorsMember == [ kind |-> ".errors", name |-> "", md5 |-> "" ]
BadMagic == [ kind |-> "badmagic", name |-> "", md5 |-> "" ]

\* The slice takes one binary more than the step of the range.
BatchInclusive(bins, c) ==
  SubSeq(bins, c + 1, IF c + ChunkSize + 1 < Len(bins) THEN c + ChunkSize + 1 ELSE Len(bins))

\* Line 129: itertools.islice(binaries, chunk, chunk + 50).
Batch(bins, c) ==
  SubSeq(bins, c + 1, IF c + ChunkSize < Len(bins) THEN c + ChunkSize ELSE Len(bins))

\* The archives the build service can answer a batch with: every requested
\* header and the trailer, or some of them followed by a member that raises.
Answers(batch) ==
  LET all == [ i \in DOMAIN batch |-> Member(batch[i].binary) ]
  IN { Append(all, Trailer) }
     \cup { Append(SubSeq(all, 1, k), bad) :
              k \in 0..Len(all), bad \in { ErrorsMember, BadMagic } }

\* The flock is taken without regard for its holder.
CanLockAlways(p) == TRUE

\* Line 147: flock(LOCK_EX | LOCK_NB) succeeds when no other open file holds
\* the lock.
CanLock(p) == lock = NoProc

\* The lock is dropped at the end of the block only, not when an exception
\* leaves it.
UnlockOnReturn(p, e) == IF lock = p /\ e = None THEN NoProc ELSE lock

\* Line 145: leaving the with block closes lockfile, which drops the flock the
\* process holds, whether the block is left by return or by an exception e.
Unlock(p, e) == IF lock = p THEN NoProc ELSE lock

MirrorInit ==
  /\ listing \in { l \in [ ListNames -> Md5s \cup {Absent} ] :
                     \A n \in ListNames : l[n] \in Md5sOf(n.stem) \cup {Absent} }
  \* what earlier mirrors left: at most one header file per listed name
  /\ destdir \in { d \in SUBSET { FileName(m, n.stem, n.suffix) :
                                    m \in Md5s, n \in { x \in ListNames : ~NameIgnored(x) } } :
                     /\ \A f \in d : f.md5 \in Md5sOf(f.stem)
                     /\ \A f, g \in d : f.stem = g.stem => f = g }
  /\ lock = NoProc
  /\ mpc = [ p \in Procs |-> "idle" ]
  /\ exc = [ p \in Procs |-> None ]
  /\ remotebins = [ p \in Procs |-> << >> ]
  /\ to_delete = [ p \in Procs |-> {} ]
  /\ chunk = [ p \in Procs |-> 0 ]
  /\ stream = [ p \in Procs |-> << >> ]
  /\ calls = 0
  /\ synced = FALSE
  /\ insync = [ p \in Procs |-> FALSE ]
  /\ unlinked = [ p \in Procs |-> {} ]
  /\ linked = [ p \in Procs |-> {} ]
  /\ requests = [ p \in Procs |-> 0 ]
  /\ ClosureQuiet
  /\ CpioQuiet
  /\ UpdateQuiet
  /\ BatchQuiet

\* mirror is left by the exception e (None: by return): the with block of
\* line 145 is left too.
Leave(p, e) ==
  /\ mpc' = [mpc EXCEPT ![p] = IF e = None THEN "returned" ELSE "raised"]
  /\ exc' = [exc EXCEPT ![p] = e]
  /\ lock' = Unlock(p, e)

\* Lines 143-151: a process calls mirror. The lock file is created; the flock
\* is taken if it is free; if it is not, the except branch runs and its first
\* statement, logger.info, raises NameError (the module defines no logger).
Call(p) ==
  /\ mpc[p] \in { "idle", "returned", "raised" }
  /\ calls < MaxCalls
  /\ calls' = calls + 1
  /\ destdir' = destdir \cup { LockFile }
  /\ remotebins' = [remotebins EXCEPT ![p] = << >>]
  /\ to_delete' = [to_delete EXCEPT ![p] = {}]
  /\ chunk' = [chunk EXCEPT ![p] = 0]
  /\ stream' = [stream EXCEPT ![p] = << >>]
  /\ insync' = [insync EXCEPT ![p] = FALSE]
  /\ unlinked' = [unlinked EXCEPT ![p] = {}]
  /\ linked' = [linked EXCEPT ![p] = {}]
  /\ requests' = [requests EXCEPT ![p] = 0]
  /\ IF CanLock(p)
       THEN /\ lock' = p
            /\ mpc' = [mpc EXCEPT ![p] = "locked"]
            /\ exc' = [exc EXCEPT ![p] = None]
       ELSE /\ mpc' = [mpc EXCEPT ![p] = "raised"]
            /\ exc' = [exc EXCEPT ![p] = "NameError"]
            /\ UNCHANGED lock
  /\ UNCHANGED << listing, synced >>
  /\ UNCHANGED << cvars, xvars, uvars, bvars >>

\* Lines 92-115: the listing is fetched and compared with os.listdir(destdir).
List(p) ==
  /\ mpc[p] = "locked"
  /\ \/ \* http_GET raises
        /\ Leave(p, "HTTPError")
        /\ UNCHANGED << remotebins, to_delete, insync >>
     \/ /\ remotebins' = [remotebins EXCEPT ![p] = MissingBins(destdir, ListedBins)]
        /\ to_delete' = [to_delete EXCEPT ![p] = StaleFiles(destdir, ListedBins)]
        /\ insync' = [insync EXCEPT ![p] = synced]
        /\ mpc' = [mpc EXCEPT ![p] =
                     IF StaleFiles(destdir, ListedBins) = {} THEN "download"
                                                             ELSE "delete"]
        /\ UNCHANGED << exc, lock >>
  /\ UNCHANGED << listing, destdir, chunk, stream, calls, synced, unlinked,
                  linked, requests >>
  /\ UNCHANGED << cvars, xvars, uvars, bvars >>

\* Lines 117-120: one os.unlink of the loop over to_delete.
Unlink(p) ==
  /\ mpc[p] = "delete"
  /\ \E path \in to_delete[p] :
       \/ \* os.unlink raises
          /\ Leave(p, "OSError")
          /\ UNCHANGED << destdir, to_delete, synced, unlinked >>
       \/ /\ destdir' = destdir \ { path }
          /\ to_delete' = [to_delete EXCEPT ![p] = @ \ { path }]
          /\ unlinked' = [unlinked EXCEPT ![p] = @ \cup { path }]
          /\ synced' = FALSE
          /\ mpc' = [mpc EXCEPT ![p] =
                       IF to_delete[p] = { path } THEN "download" ELSE "delete"]
          /\ UNCHANGED << exc, lock >>
  /\ UNCHANGED << listing, remotebins, chunk, stream, calls, insync, linked,
                  requests >>
  /\ UNCHANGED << cvars, xvars, uvars, bvars >>

\* Lines 127-138: the request of one batch.
Request(p) ==
  /\ mpc[p] = "download"
  /\ chunk[p] < Len(remotebins[p])
  /\ requests' = [requests EXCEPT ![p] = @ + 1]
  /\ \/ \* http_GET raises
        /\ Leave(p, "HTTPError")
        /\ UNCHANGED stream
     \/ \E req \in Answers(Batch(remotebins[p], chunk[p])) :
          /\ stream' = [stream EXCEPT ![p] = req]
          /\ mpc' = [mpc EXCEPT ![p] = "extract"]
          /\ UNCHANGED << exc, lock >>
  /\ UNCHANGED << listing, destdir, remotebins, to_delete, chunk, calls, synced,
                  insync, unlinked, linked >>
  /\ UNCHANGED << cvars, xvars, uvars, bvars >>

\* Lines 50-87: one pass of the loop of extract_cpio_stream.
Extract(p) ==
  /\ mpc[p] = "extract"
  /\ LET member == Head(stream[p])
     IN \/ /\ member.kind = "badmagic"
           /\ Leave(p, "NotImplementedError")
           /\ UNCHANGED << destdir, stream, chunk, synced, linked >>
        \/ /\ member.kind = ".errors"
           /\ Leave(p, "RuntimeError")
           /\ UNCHANGED << destdir, stream, chunk, synced, linked >>
        \/ /\ member.kind = "binary"
           /\ \/ \* the temporary file cannot be written or linked
                 /\ Leave(p, "OSError")
                 /\ UNCHANGED << destdir, stream, synced, linked >>
              \/ /\ DestPath(member) \notin destdir
                 /\ destdir' = destdir \cup { DestPath(member) }
                 /\ linked' = [linked EXCEPT ![p] = @ \cup { DestPath(member) }]
                 /\ synced' = FALSE
                 /\ stream' = [stream EXCEPT ![p] = Tail(@)]
                 /\ UNCHANGED << mpc, exc, lock >>
           /\ UNCHANGED chunk
        \/ /\ member.kind = "TRAILER!!!"
           /\ chunk' = [chunk EXCEPT ![p] = @ + ChunkSize]
           /\ stream' = [stream EXCEPT ![p] = << >>]
           /\ mpc' = [mpc EXCEPT ![p] = "download"]
           /\ UNCHANGED << destdir, exc, lock, synced, linked >>
  /\ UNCHANGED << listing, remotebins, to_delete, calls, insync, unlinked,
                  requests >>
  /\ UNCHANGED << cvars, xvars, uvars, bvars >>

\* Line 153: _mirror returns after the last batch, and so does mirror.
MirrorReturn(p) ==
  /\ mpc[p] = "download"
  /\ chunk[p] >= Len(remotebins[p])
  /\ Leave(p, None)
  /\ synced' = TRUE
  /\ UNCHANGED << listing, destdir, remotebins, to_delete, chunk, stream, calls,
                  insync, unlinked, linked, requests >>
  /\ UNCHANGED << cvars, xvars, uvars, bvars >>

MirrorNext ==
  \E p \in Procs :
    Call(p) \/ List(p) \/ Unlink(p) \/ Request(p) \/ Extract(p) \/ MirrorReturn(p)

SpecMirror == MirrorInit /\ [][MirrorNext]_vars

(***************************************************************************)
(* mirror_repository: the indexing pass after the mirror, and the remote   *)
(* repository being rebuilt meanwhile                                      *)
(***************************************************************************)

\* Lines 187-218: RepoMirror.mirror has returned to mirror_repository (the
\* with block of line 145 is left), and the process reads the entries of the
\* directory and the header files; it takes no lock for it.
IterDir(p) ==
  /\ mpc[p] = "returned"
  /\ mpc' = [mpc EXCEPT ![p] = "indexed"]
  /\ UNCHANGED << listing, destdir, lock, exc, remotebins, to_delete, chunk,
                  stream, calls, synced, insync, unlinked, linked, requests >>
  /\ UNCHANGED << cvars, xvars, uvars, bvars >>

\* The build service publishes a rebuild: a binary of the listing that the
\* next request of line 92 gets has another hdrmd5.
Rebuild ==
  /\ \E n \in { x \in ListNames : listing[x] # Absent } :
       \E m \in Md5sOf(n.stem) \ { listing[n] } :
         listing' = [listing EXCEPT ![n] = m]
  /\ synced' = FALSE
  /\ UNCHANGED << destdir, lock, mpc, exc, remotebins, to_delete, chunk, stream,
                  calls, insync, unlinked, linked, requests >>
  /\ UNCHANGED << cvars, xvars, uvars, bvars >>

IndexNext ==
  \/ MirrorNext
  \/ \E p \in Procs : IterDir(p)
  \/ Rebuild

SpecIndex == MirrorInit /\ [][IndexNext]_vars

(***************************************************************************)
(* extract_cpio_stream on the bytes of the stream                          *)
(***************************************************************************)

\* Number of binary entries in an archive, and length of a payload.
MaxEntries == 2
MaxPayload == 4

\* A byte is written as the character it stands for; NUL is the zero byte.
NUL == "NUL"

HexDigits ==
  << "0", "1", "2", "3", "4", "5", "6", "7", "8", "9", "a", "b", "c", "d", "e", "f" >>

\* Line 36: struct.Struct('6s8s8s8s8s8s8s8s8s8s8s8s8s8s').size.
cpio_struct_size == 110

\* Line 37: the {32} of cpio_name_re.
Md5Len == 32

\* Line 53: b'070701'; and the magic of the old portable format.
Magic == << "0", "7", "0", "7", "0", "1" >>
OldMagic == << "0", "7", "0", "7", "0", "7" >>

\* Lines 66 and 82: '.errors' and 'TRAILER!!!'.
ErrorsName == << ".", "e", "r", "r", "o", "r", "s" >>
TrailerName == << "T", "R", "A", "I", "L", "E", "R", "!", "!", "!" >>

\* The eight hexadecimal digits of n, as a header field holds a number.
Hex8(n) == [ i \in 1..8 |-> HexDigits[((n \div (16 ^ (8 - i))) % 16) + 1] ]

\* CpioHdr, line 60: int(field, 16).
RECURSIVE HexValue(_)
HexValue(s) ==
  IF s = << >> THEN 0
  ELSE 16 * HexValue(SubSeq(s, 1, Len(s) - 1))
       + (CHOOSE i \in 1..16 : HexDigits[i] = s[Len(s)]) - 1

\* The k-th of the thirteen 8-byte fields that follow the magic (line 36).
Field(raw, k) == SubSeq(raw, 6 + 8 * (k - 1) + 1, 6 + 8 * k)

\* A record of an archive as the build service writes it.
Record(magic, filename, payload) ==
  [ magic |-> magic, filename |-> filename, payload |-> payload ]

Zeros(n) == [ i \in 1..n |-> NUL ]

\* The new ASCII format: the number of zero bytes that follow n bytes up to
\* the next multiple of four.
PadTo4(n) == CHOOSE k \in 0..3 : (n + k) % 4 = 0

\* The bytes of one record: magic, ino, mode, uid, gid, nlink, mtime,
\* filesize, devmajor, devminor, rdevmajor, rdevminor, namesize, check;
\* the file name, its terminator and padding; the payload and padding.
EncodeRecord(r) ==
  r.magic \o Hex8(0) \o Hex8(0) \o Hex8(0) \o Hex8(0) \o Hex8(0) \o Hex8(0)
    \o Hex8(Len(r.payload))
    \o Hex8(0) \o Hex8(0) \o Hex8(0) \o Hex8(0)
    \o Hex8(Len(r.filename) + 1)
    \o Hex8(0)
    \o r.filename \o << NUL >>
    \o Zeros(PadTo4(cpio_struct_size + Len(r.filename) + 1))
    \o r.payload \o Zeros(PadTo4(Len(r.payload)))

RECURSIVE EncodeRecords(_)
EncodeRecords(rs) ==
  IF rs = << >> THEN << >>
  ELSE EncodeRecord(Head(rs)) \o EncodeRecords(Tail(rs))

\* The bytes of stream: the records, and what follows the last of them.
Bytes(a) == EncodeRecords(a.records) \o a.extra

\* stream.read(n) at position p: the next n bytes, fewer at the end.
ReadAt(p, n) ==
  LET last == IF p + n < Len(stream_bytes) THEN p + n ELSE Len(stream_bytes)
  IN SubSeq(stream_bytes, p + 1, last)

\* The padding is skipped even when the position is aligned.
AlignPadNoWrap(p) == 4 - (p % 4)

\* Lines 57-58, align: the number of bytes read at position p.
AlignPad(p) == (4 - (p % 4)) % 4

\* Every magic is taken for the new ASCII one.
MagicOkAlways(raw) == TRUE

\* Line 53: hdrtuples[0] == b'070701'.
MagicOk(raw) == SubSeq(raw, 1, 6) = Magic

\* Line 37 and line 65: cpio_name_re.match(filename), for
\* '^([^/]+)-([0-9a-f]{32})$'.
NameMatch(f) ==
  /\ Len(f) >= Md5Len + 2
  /\ f[Len(f) - Md5Len] = "-"
  /\ \A i \in (Len(f) - Md5Len + 1)..Len(f) :
       \E d \in 1..16 : HexDigits[d] = f[i]
  /\ \A i \in 1..(Len(f) - Md5Len - 1) : f[i] # "/"

\* Lines 70-71: binarymatch.group(1) and group(2).
NameGroup(f) == SubSeq(f, 1, Len(f) - Md5Len - 1)
Md5Group(f) == SubSeq(f, Len(f) - Md5Len + 1, Len(f))

\* Line 72: f'{md5}-{name}.rpm'.
CpioDestPath(f) == Md5Group(f) \o << "-" >> \o NameGroup(f) \o << ".", "r", "p", "m" >>

\* The input streams: binary entries of every name and payload length
\* modulo 4, with the trailer; and streams that end otherwise.
Stems ==
  { << "a" >>, << "a", "b" >>, << "a", "-", "c" >>, << "l", "i", "b", "z" >> }

HdrMd5 == [ i \in 1..Md5Len |-> HexDigits[((i - 1) % 16) + 1] ]

PayloadAlphabet == << "x", NUL, "0", "7", "y" >>

Payload(n) == [ i \in 1..n |-> PayloadAlphabet[((i - 1) % Len(PayloadAlphabet)) + 1] ]

Entries ==
  { Record(Magic, stem \o << "-" >> \o HdrMd5, Payload(n)) :
      stem \in Stems, n \in 0..MaxPayload }

EntrySeqs == UNION { [ 1..k -> Entries ] : k \in 0..MaxEntries }

TrailerRecord == Record(Magic, TrailerName, << >>)

BadRecords ==
  { Record(OldMagic, TrailerName, << >>),
    Record(OldMagic, << "a" >> \o << "-" >> \o HdrMd5, Payload(1)),
    Record(Magic, ErrorsName, << "n", "o" >>),
    Record(Magic, << "R", "E", "A", "D", "M", "E" >>, << >>) }

Archives ==
  { [ records |-> Append(es, TrailerRecord), extra |-> << >> ] : es \in EntrySeqs }
  \cup { [ records |-> Append(es, bad), extra |-> << >> ] :
           es \in { x \in EntrySeqs : Len(x) < MaxEntries }, bad \in BadRecords }
  \cup { [ records |-> es, extra |-> << >> ] :
           es \in { x \in EntrySeqs : Len(x) < MaxEntries } }
  \cup { [ records |-> Append(es, TrailerRecord), extra |-> << "x" >> ] :
           es \in { x \in EntrySeqs : Len(x) < MaxEntries } }

\* extract_cpio_stream is called on a stream at position 0 and a destdir
\* that holds none of the files of the stream.
CpioInit ==
  /\ archive \in Archives
  /\ stream_bytes = Bytes(archive)
  /\ tell = 0
  /\ xpc = "header"
  /\ hdr = NoHdr
  /\ tmpfile = NoTmp
  /\ extracted = << >>
  /\ xerr = None
  /\ ClosureQuiet
  /\ MirrorQuiet
  /\ UpdateQuiet
  /\ BatchQuiet

\* extract_cpio_stream is left by the exception e.
XRaise(e) ==
  /\ xpc' = "raised"
  /\ xerr' = e

\* Lines 51-60: the header is read and unpacked, the magic is tested.
ReadHeader ==
  /\ xpc = "header"
  /\ LET raw == ReadAt(tell, cpio_struct_size)
     IN /\ tell' = tell + Len(raw)
        /\ IF Len(raw) < cpio_struct_size
             THEN XRaise("struct.error") /\ UNCHANGED hdr
           ELSE IF ~MagicOk(raw)
             THEN XRaise("NotImplementedError: CPIO format") /\ UNCHANGED hdr
           ELSE /\ hdr' = [ namesize |-> HexValue(Field(raw, 12)),
                            filesize |-> HexValue(Field(raw, 7)),
                            filename |-> << >> ]
                /\ xpc' = "name"
                /\ UNCHANGED xerr
  /\ UNCHANGED << archive, stream_bytes, tmpfile, extracted >>
  /\ UNCHANGED << cvars, mvars, uvars, bvars >>

\* Lines 61-69 and 82-87: the file name, its terminator and the padding are
\* read; the name decides what the record is.
ReadName ==
  /\ xpc = "name"
  /\ LET filename == ReadAt(tell, hdr.namesize - 1)
         p1 == tell + Len(filename)
         p2 == p1 + Len(ReadAt(p1, 1))
         p3 == p2 + Len(ReadAt(p2, AlignPad(p2)))
     IN /\ hdr' = [hdr EXCEPT !.filename = filename]
        /\ IF filename = ErrorsName
             THEN /\ tell' = p3 + Len(ReadAt(p3, hdr.filesize))
                  /\ XRaise("RuntimeError: Download has errors")
           ELSE IF NameMatch(filename)
             THEN /\ tell' = p3
                  /\ xpc' = "write"
                  /\ UNCHANGED xerr
           ELSE IF filename = TrailerName
             THEN /\ tell' = p3 + Len(ReadAt(p3, 1))
                  /\ IF ReadAt(p3, 1) # << >>
                       THEN XRaise("RuntimeError: Expected end of CPIO")
                       ELSE xpc' = "returned" /\ UNCHANGED xerr
           ELSE /\ tell' = p3
                /\ XRaise("NotImplementedError: Unhandled file")
  /\ UNCHANGED << archive, stream_bytes, tmpfile, extracted >>
  /\ UNCHANGED << cvars, mvars, uvars, bvars >>

\* Lines 73-75: the temporary file is created in destdir and the payload is
\* written to it. The file object is buffered: the bytes are in the file when
\* write returns if they are more than the buffer holds, and in the buffer if
\* they are fewer.
WriteTmp ==
  /\ xpc = "write"
  /\ LET payload == ReadAt(tell, hdr.filesize)
     IN /\ tell' = tell + Len(payload)
        /\ \E k \in { 0, Len(payload) } :
             tmpfile' = [ open |-> TRUE,
                          data |-> SubSeq(payload, 1, k),
                          buf |-> SubSeq(payload, k + 1, Len(payload)) ]
  /\ xpc' = "link"
  /\ UNCHANGED << archive, stream_bytes, hdr, extracted, xerr >>
  /\ UNCHANGED << cvars, mvars, uvars, bvars >>

\* Line 76: os.link(tmpfile.name, destpath); the final name is one more name
\* of the temporary file. An existing destpath raises FileExistsError, and
\* the with block closes and deletes the temporary file.
Link ==
  /\ xpc = "link"
  /\ LET destpath == CpioDestPath(hdr.filename)
     IN IF \E i \in DOMAIN extracted : extracted[i].path = destpath
          THEN /\ XRaise("FileExistsError")
               /\ tmpfile' = NoTmp
               /\ UNCHANGED extracted
          ELSE /\ extracted' = Append(extracted, [ path |-> destpath,
                                                   data |-> tmpfile.data,
                                                   size |-> hdr.filesize ])
               /\ xpc' = "close"
               /\ UNCHANGED << tmpfile, xerr >>
  /\ UNCHANGED << archive, stream_bytes, tell, hdr >>
  /\ UNCHANGED << cvars, mvars, uvars, bvars >>

\* Lines 73 and 81: the with block is left, which flushes the buffer into the
\* file and removes the temporary name; then the padding is read.
Close ==
  /\ xpc = "close"
  /\ extracted' = [extracted EXCEPT ![Len(extracted)].data = @ \o tmpfile.buf]
  /\ tmpfile' = NoTmp
  /\ tell' = tell + Len(ReadAt(tell, AlignPad(tell)))
  /\ xpc' = "header"
  /\ UNCHANGED << archive, stream_bytes, hdr, xerr >>
  /\ UNCHANGED << cvars, mvars, uvars, bvars >>

CpioNext == ReadHeader \/ ReadName \/ WriteTmp \/ Link \/ Close

SpecCpio == CpioInit /\ [][CpioNext]_vars

(***************************************************************************)
(* changesgen.py: extract_update_section                                   *)
(***************************************************************************)

\* Number of lines of the file.
MaxLines == 4

\* A line is the sequence of its bytes, a text the sequence of its
\* characters. The lines are those of test_extraction_section_trio; xFF, in
\* IncludedLine, is a byte that is no UTF-8, which the file may hold.
NotYetLine ==
  << "-", " ", "n", "o", "t", " ", "y", "e", "t", " ", "i", "n", "c", "l",
     "u", "d", "e", "d", "\n" >>

NewHeading ==
  << "T", "r", "i", "o", " ", "0", ".", "2", "7", ".", "0", "\n" >>

BlankLine ==
  << "\n" >>

IncludedLine ==
  << " ", " ", "i", "n", "c", "l", "u", "d", "e", "d", " ", "xFF", "t", "e",
     "x", "t", "\n" >>

OldHeading ==
  << "T", "r", "i", "o", " ", "0", ".", "2", "6", ".", "2", " ", "(", "2",
     "0", "2", "4", "-", "0", "8", "-", "0", "8", ")", "\n" >>

OldHeadingPkg ==
  << "p", "y", "t", "h", "o", "n", "-", "t", "r", "i", "o", " ", "0", ".",
     "2", "6", ".", "2", " ", "(", "2", "0", "2", "4", "-", "0", "8", "-",
     "0", "8", ")", "\n" >>

NoLongerLine ==
  << "-", " ", "n", "o", " ", "l", "o", "n", "g", "e", "r", " ", "i", "n",
     "c", "l", "u", "d", "e", "d", "\n" >>

oldv ==
  << "0", ".", "2", "6", ".", "2" >>

newv ==
  << "0", ".", "2", "7", ".", "0" >>

LineTexts ==
  { NotYetLine, NewHeading, BlankLine, IncludedLine, OldHeading, OldHeadingPkg,
    NoLongerLine }

PackageNames ==
  { << "p", "y", "t", "h", "o", "n", "-", "t", "r", "i", "o" >>,
    << "t", "r", "i", "o" >> }

UpperCase ==
  << "A", "B", "C", "D", "E", "F", "G", "H", "I", "J", "K", "L", "M", "N",
     "O", "P", "Q", "R", "S", "T", "U", "V", "W", "X", "Y", "Z" >>

LowerCase ==
  << "a", "b", "c", "d", "e", "f", "g", "h", "i", "j", "k", "l", "m", "n",
     "o", "p", "q", "r", "s", "t", "u", "v", "w", "x", "y", "z" >>

\* Line 313: line.decode(encoding='utf-8', errors='ignore').
Decode(line) == SelectSeq(line, LAMBDA b : b # "xFF")

\* str.lower().
Lower(s) ==
  [ i \in DOMAIN s |->
      IF \E k \in DOMAIN UpperCase : UpperCase[k] = s[i]
        THEN LowerCase[CHOOSE k \in DOMAIN UpperCase : UpperCase[k] = s[i]]
        ELSE s[i] ]

\* str.strip(chars): the characters of chars are removed at both ends.
RECURSIVE LStrip(_, _)
LStrip(s, chars) ==
  IF s # << >> /\ Head(s) \in chars THEN LStrip(Tail(s), chars) ELSE s

RECURSIVE RStrip(_, _)
RStrip(s, chars) ==
  IF s # << >> /\ s[Len(s)] \in chars
    THEN RStrip(SubSeq(s, 1, Len(s) - 1), chars)
    ELSE s

Strip(s, chars) == RStrip(LStrip(s, chars), chars)

\* Line 315: the characters of the argument of strip, from the blank to the
\* grave accent.
StripChars ==
  { " ", "\r", "\n", "(", ")", "[", "]", "t", "*", "#", "-", "=", ":", "/",
    "GRAVE" }

\* str.strip() without argument: white space.
WhiteSpace == { " ", "\t", "\n", "\r" }

StartsWith(s, p) == Len(s) >= Len(p) /\ SubSeq(s, 1, Len(p)) = p

EndsWith(s, p) == Len(s) >= Len(p) /\ SubSeq(s, Len(s) - Len(p) + 1, Len(s)) = p

\* sub in s.
Contains(s, sub) ==
  \E i \in 0..(Len(s) - Len(sub)) : SubSeq(s, i + 1, i + Len(sub)) = sub

\* Line 319: s.partition(' ')[2], what follows the first space.
AfterFirstSpace(s) ==
  IF \E i \in DOMAIN s : s[i] = " "
    THEN SubSeq(s, (CHOOSE i \in DOMAIN s :
                      s[i] = " " /\ \A j \in 1..(i - 1) : s[j] # " ") + 1, Len(s))
    ELSE << >>

\* Lines 317-319: a line that starts with the package name loses its first
\* word.
HeadingText(stripped_line) ==
  IF StartsWith(Lower(stripped_line), Lower(package_name))
    THEN Strip(AfterFirstSpace(stripped_line), WhiteSpace)
    ELSE stripped_line

\* Lines 315-329: the line of the update section ends it (break).
EndsSection(line) ==
  LET stripped_line == HeadingText(Strip(line, StripChars))
  IN /\ Strip(line, StripChars) # << >>
     /\ \/ StartsWith(stripped_line, oldv)
        \/ StartsWith(stripped_line, << "(" >> \o oldv \o << ")" >>)
        \/ StartsWith(Lower(stripped_line),
                      << "v", "e", "r", "s", "i", "o", "n", " " >> \o oldv)
        \/ EndsWith(stripped_line, oldv)
        \/ EndsWith(stripped_line, oldv \o << ".", "0" >>)
        \/ /\ Contains(Lower(stripped_line), << "r", "e", "l", "e", "a", "s", "e" >>)
           /\ Contains(stripped_line, oldv)

LineSeqs == UNION { [ 1..k -> LineTexts ] : k \in 0..MaxLines }

\* extract_update_section(oldv, newv, package_name, infile) is called.
UpdateInit ==
  /\ package_name \in PackageNames
  /\ infile \in LineSeqs
  /\ lineno = 0
  /\ inupdatesection = FALSE
  /\ update_section = << >>
  /\ upc = "loop"
  /\ ClosureQuiet
  /\ MirrorQuiet
  /\ CpioQuiet
  /\ BatchQuiet

\* Lines 312-334: one pass of the loop over the lines of infile.
ForLine ==
  /\ upc = "loop"
  /\ lineno < Len(infile)
  /\ lineno' = lineno + 1
  /\ LET line == Decode(infile[lineno + 1])
     IN IF inupdatesection
          THEN IF EndsSection(line)
                 THEN /\ upc' = "returned"
                      /\ UNCHANGED << inupdatesection, update_section >>
                 ELSE /\ update_section' = update_section \o line
                      /\ UNCHANGED << inupdatesection, upc >>
        ELSE IF Contains(line, newv)
          THEN /\ update_section' = update_section \o line
               /\ inupdatesection' = TRUE
               /\ UNCHANGED upc
        ELSE UNCHANGED << inupdatesection, update_section, upc >>
  /\ UNCHANGED << package_name, infile >>
  /\ UNCHANGED << cvars, mvars, xvars, bvars >>

\* Line 335: infile has no more line, update_section is returned.
ReturnSection ==
  /\ upc = "loop"
  /\ lineno = Len(infile)
  /\ upc' = "returned"
  /\ UNCHANGED << package_name, infile, lineno, inupdatesection, update_section >>
  /\ UNCHANGED << cvars, mvars, xvars, bvars >>

UpdateNext == ForLine \/ ReturnSection

SpecUpdate == UpdateInit /\ [][UpdateNext]_vars

(***************************************************************************)
(* _mirror, lines 122-139: the downloads in batches, with as many binaries *)
(* queued as it takes to fill more than two batches                        *)
(***************************************************************************)

\* Number of binaries queued for download.
MaxBins == 101

\* Lines 122-124: _mirror reaches "if remotebins" with len(remotebins) = n;
\* the i-th value of the dict is written i.
BatchInit ==
  /\ binaries \in { [ i \in 1..n |-> i ] : n \in 0..MaxBins }
  /\ range_chunk = 0
  /\ queries = << >>
  /\ bpc = "loop"
  /\ ClosureQuiet
  /\ MirrorQuiet
  /\ CpioQuiet
  /\ UpdateQuiet

\* Lines 127-138: the range yields a chunk, the query names the binaries of
\* the slice, and http_GET sends it; the call answers or raises.
BatchRequest ==
  /\ bpc = "loop"
  /\ range_chunk < Len(binaries)
  /\ queries' = Append(queries, Batch(binaries, range_chunk))
  /\ \/ bpc' = "raised"
     \/ bpc' = "extract"
  /\ UNCHANGED << binaries, range_chunk >>
  /\ UNCHANGED << cvars, mvars, xvars, uvars >>

\* Line 139: extract_cpio_stream raises or returns; when it returns, the
\* range steps by 50.
BatchExtract ==
  /\ bpc = "extract"
  /\ \/ /\ bpc' = "raised"
        /\ UNCHANGED range_chunk
     \/ /\ bpc' = "loop"
        /\ range_chunk' = range_chunk + ChunkSize
  /\ UNCHANGED << binaries, queries >>
  /\ UNCHANGED << cvars, mvars, xvars, uvars >>

\* Lines 122 and 127: remotebins is empty or the range is exhausted, and
\* _mirror returns.
BatchReturn ==
  /\ bpc = "loop"
  /\ range_chunk >= Len(binaries)
  /\ bpc' = "returned"
  /\ UNCHANGED << binaries, range_chunk, queries >>
  /\ UNCHANGED << cvars, mvars, xvars, uvars >>

BatchNext == BatchRequest \/ BatchExtract \/ BatchReturn

SpecBatch == BatchInit /\ [][BatchNext]_vars

(***************************************************************************)
(* Claims on the mirror                                                    *)
(***************************************************************************)

\* The process is between taking the flock and leaving mirror: it runs _mirror.
InBody(p) == mpc[p] \in { "locked", "delete", "download", "extract" }

\* The exceptions _mirror and extract_cpio_stream leave mirror with.
BodyErrors == { "HTTPError", "OSError", "RuntimeError", "NotImplementedError" }

\* C4: at every moment at most one process runs the mirror body for the
\* directory, and the process that runs it holds the lock, from before the
\* listing is fetched until the body has finished.
C4_OneMirrorAtATime ==
  /\ \A p, q \in Procs : InBody(p) /\ InBody(q) => p = q
  /\ \A p \in Procs : InBody(p) => lock = p

\* One process is past the listing, in the body, and another one has called
\* mirror meanwhile and found the lock held.
C4_Witness ==
  \E p, q \in Procs :
    /\ p # q
    /\ mpc[p] \in { "delete", "download", "extract" }
    /\ mpc[q] = "raised"
    /\ exc[q] = "NameError"

\* C5: a caller that finds the lock held waits for it and then mirrors: it
\* never fails because of the contention.
C5_ContenderNeverFails ==
  \A p \in Procs : ~(mpc[p] = "raised" /\ exc[p] = "NameError")

\* C6: whenever mirror has exited, by return or by an exception, the process
\* no longer holds the lock of the directory.
C6_LockReleasedOnExit ==
  \A p \in Procs : mpc[p] \in { "returned", "raised" } => lock # p

\* A call was ended by an exception of the body, and a later caller holds the
\* lock.
C6_Witness ==
  \E p, q \in Procs :
    /\ p # q
    /\ mpc[p] = "raised"
    /\ exc[p] \in BodyErrors
    /\ lock = q

\* C7: a call that starts right after a successful call, the remote listing
\* unchanged, issues no download request, unlinks no file and links none.
C7_SecondMirrorDoesNothing ==
  \A p \in Procs :
    insync[p] => unlinked[p] = {} /\ requests[p] = 0 /\ linked[p] = {}

\* A call that downloaded has returned, and the next call has returned too.
C7_Witness ==
  \E p, q \in Procs :
    /\ p # q
    /\ mpc[q] = "returned"
    /\ requests[q] > 0
    /\ linked[q] # {}
    /\ insync[p]
    /\ mpc[p] = "returned"

\* C8: after a successful mirror the *.rpm files of the directory are exactly
\* the files of the name-filtered listing.
C8_DirEqualsListing ==
  synced =>
    { f \in destdir : f.suffix = ".rpm" }
      = { ListedBins[i].file : i \in DOMAIN ListedBins }

\* A call has returned that unlinked the bbbb header of glibc and linked the
\* aaaa one, and nothing changed since.
C8_Witness ==
  /\ synced
  /\ \E p \in Procs :
       /\ mpc[p] = "returned"
       /\ FileName("bbbb", "glibc", ".rpm") \in unlinked[p]
       /\ FileName("aaaa", "glibc", ".rpm") \in linked[p]

(***************************************************************************)
(* The edge-resolution relation of the build service's data                *)
(***************************************************************************)

\* The source package the two tiers give for a <bdep>: the <subpkg>
\* association of its own (project, repository), else the header of that name
\* in the mirror of its (project, repository), else None (NotFound).
ResolvesTo(b) ==
  IF \E e \in BuildDepInfo(b.project, b.repository) : e[1] = b.name
    THEN (CHOOSE e \in BuildDepInfo(b.project, b.repository) : e[1] = b.name)[2]
  ELSE IF \E h \in MirroredHeaders(b.project, b.repository) :
            h.readable /\ h.name = b.name
    THEN StripFlavor((CHOOSE h \in MirroredHeaders(b.project, b.repository) :
                        h.readable /\ h.name = b.name).src_package)
  ELSE None

\* The targets the resolved <bdep> elements of t's build environment lead to.
Successors(t) ==
  { <<b.project, b.repository, ResolvesTo(b)>> :
      b \in { x \in Range(BuildEnvOf(t)) : ResolvesTo(x) # None } }

RECURSIVE ClosureOf(_)
ClosureOf(S) ==
  LET N == S \cup UNION { Successors(t) : t \in S }
  IN IF N = S THEN S ELSE ClosureOf(N)

Reachable == ClosureOf({start})

(***************************************************************************)
(* Claims on the closure                                                   *)
(***************************************************************************)

\* C1: when expand_proj_deps returns, the set it returns is exactly the set of
\* targets reachable from the start through resolved build-environment edges.
C1_VisitedIsReachable ==
  pc = "returned" => expanded_prjpkg = Reachable

\* The exceptions a remote fetch, or the reading of what it fetched, ends the
\* run with.
FetchErrors == { "HTTPError", "MirrorError", "TypeError" }

\* C2: on every graph, cycles and self-edges included, the worklist loop ends:
\* a run in the loop reaches the return of expand_proj_deps, unless a fetch
\* (or the reading of a fetched header) raised.
C2_Terminates ==
  (pc \in {"loop", "edges"}) ~> (pc = "returned" \/ raised \in FetchErrors)

\* A run has returned from a graph in which two targets depend on each other.
C2_Witness ==
  /\ pc = "returned"
  /\ \E t, u \in expanded_prjpkg :
       t # u /\ u \in Successors(t) /\ t \in Successors(u)

\* C3: two runs from the same start over the unchanged remote graph return the
\* same visited set, also when the second run is made in the same process.
C3_SameVisitedSet ==
  \A i, j \in DOMAIN results : results[i] = results[j]

\* C9: an edge the cheap tier does not find, and for which the mirror and the
\* indexing leave a mapping for (project, name), resolves to that source
\* package: its target is in the work set unless already expanded.
C9_MirrorHitIsFollowed ==
  [][ ( /\ pc = "edges"
        /\ bdeps # << >>
        /\ pc' # "raised"
        /\ deppkg' = None
        /\ BIN2PKG'[<<Head(bdeps).project, Head(bdeps).name>>] # None )
      => LET b == Head(bdeps)
             t == <<b.project, b.repository, BIN2PKG'[<<b.project, b.name>>]>>
         IN t \in expanded_prjpkg' \/ t \in work_prjpkgs' ]_vars

\* C10: an edge for which no mapping exists after both tiers is skipped: the
\* step raises nothing of its own, goes on with the next <bdep> of the same
\* target and leaves the work set and the visited set as they are.
C10_NotFoundIsSkipped ==
  [][ ( /\ pc = "edges"
        /\ bdeps # << >>
        /\ BIN2PKG'[<<Head(bdeps).project, Head(bdeps).name>>] = None
        /\ raised' \notin FetchErrors )
      => /\ pc' = (IF Tail(bdeps) = << >> THEN "loop" ELSE "edges")
         /\ bdeps' = Tail(bdeps)
         /\ work_prjpkgs' = work_prjpkgs
         /\ expanded_prjpkg' = expanded_prjpkg ]_vars

\* A run has returned after an unresolvable <bdep> that was followed, in the
\* same build environment, by a <bdep> whose target was then expanded.
C10_Witness ==
  /\ pc = "returned"
  /\ \E t \in expanded_prjpkg : \E i \in DOMAIN BuildEnvOf(t) :
       /\ i < Len(BuildEnvOf(t))
       /\ ResolvesTo(BuildEnvOf(t)[i]) = None
       /\ BIN2PKG[<<BuildEnvOf(t)[i].project, BuildEnvOf(t)[i].name>>] = None
       /\ ResolvesTo(BuildEnvOf(t)[i + 1]) # None
       /\ <<BuildEnvOf(t)[i + 1].project, BuildEnvOf(t)[i + 1].repository,
            ResolvesTo(BuildEnvOf(t)[i + 1])>> \in expanded_prjpkg \ {t}

(***************************************************************************)
(* Failures of the _buildenv request and of the header indexing            *)
(***************************************************************************)

\* C11: when the _buildenv request of a target fails, the run ends with the
\* exception in that very step, returns no visited set then or later, and
\* takes no further step; this is so whatever be_strict_with_errors is, and
\* so with the value the module gives it.
C11_FetchFailureIsFatal ==
  [][ /\ (pc = "loop" /\ raised = None /\ raised' # None)
           => (pc' = "raised" /\ results' = results)
      /\ pc # "raised" ]_vars

\* A run ended by the failed _buildenv request of a target other than the
\* one it started with, under the flag's own value.
C11_Witness ==
  /\ ~be_strict_with_errors
  /\ pc = "raised"
  /\ raised = "HTTPError"
  /\ bdeps = << >>
  /\ Cardinality(expanded_prjpkg) >= 2

\* C12: with be_strict_with_errors off (the lenient mode), the failed
\* _buildenv request of a target does not end the run: the step at the loop
\* head leaves the run in the loop, the target stays visited.
C12_LenientFetchFailureContinues ==
  [][ (pc = "loop" /\ ~be_strict_with_errors)
        => (pc' # "raised" /\ expanded_prjpkg \subseteq expanded_prjpkg') ]_vars

\* C13: a header file that cannot be read does not end the run: no run ends
\* with the TypeError of line 208.
C13_UnreadableHeaderSkipped == raised # "TypeError"

(***************************************************************************)
(* The work set and the expanded set                                       *)
(***************************************************************************)

\* C20: a step puts a target into work_prjpkgs only if the target is not in
\* the expanded set of the run at that moment: no expanded target goes back
\* into the work set.
C20_OnlyUnvisitedEnterFrontier ==
  [][ \A t \in work_prjpkgs' \ work_prjpkgs :
        /\ t \notin expanded_prjpkg'
        /\ pc = "edges" => t \notin expanded_prjpkg ]_vars

\* A <bdep> of the start target resolved to the start target's own source
\* package while only the start target was expanded: the target did not go
\* back into the work set.
C20_Witness ==
  /\ pc \in {"loop", "edges"}
  /\ expanded_prjpkg = { start }
  /\ deppkg = start[3]
  /\ start \notin work_prjpkgs

(***************************************************************************)
(* BIN2PKG over the operations of one process                              *)
(***************************************************************************)

\* C19: BIN2PKG only grows: a key that maps to a source package keeps
\* mapping to that source package in every later step (a _builddepinfo
\* load, a header indexing pass, a further call of expand_proj_deps).
C19_CacheOnlyGrows ==
  [][ \A k \in Keys : BIN2PKG[k] # None => BIN2PKG'[k] = BIN2PKG[k] ]_vars

(***************************************************************************)
(* Readers of the directory during another process's mirror                *)
(***************************************************************************)

\* The mirror of process q is midway: it has unlinked or linked a file, and
\* it still has a file to unlink or a listed header to download.
Midway(q) ==
  /\ mpc[q] \in { "delete", "download", "extract" }
  /\ unlinked[q] \cup linked[q] # {}
  /\ \/ to_delete[q] # {}
     \/ \E i \in DOMAIN remotebins[q] : remotebins[q][i].file \notin destdir

\* C14: no process reads the entries of the directory (the indexing pass of
\* mirror_repository included) while the mirror of another process is
\* midway: a read sees the directory as it is before or after a whole mirror.
C14_ReadsSeeWholeMirrors ==
  [][ \A p \in Procs :
        (mpc[p] = "returned" /\ mpc'[p] = "indexed")
          => \A q \in Procs \ {p} : ~Midway(q) ]_vars

(***************************************************************************)
(* Claims on extract_cpio_stream                                           *)
(***************************************************************************)

\* C15: a file is in destdir under its final name only with all the filesize
\* bytes of its payload in it: the bytes are in the temporary file before the
\* final name is linked to it.
C15_VisibleOnlyWhenComplete ==
  \A i \in DOMAIN extracted : Len(extracted[i].data) = extracted[i].size

\* C16: when the magic of a header (the first one or a later one) is not
\* 070701, the step that has read the 110 bytes of the header ends the
\* decoding with the error of the unsupported format: the position is just
\* past the header, no file is written, and no step follows.
C16_BadMagicFailsAtOnce ==
  [][ /\ ( /\ xpc = "header"
           /\ Len(ReadAt(tell, cpio_struct_size)) = cpio_struct_size
           /\ SubSeq(ReadAt(tell, cpio_struct_size), 1, 6) # Magic )
        => ( /\ xpc' = "raised"
             /\ xerr' = "NotImplementedError: CPIO format"
             /\ tell' = tell + cpio_struct_size
             /\ extracted' = extracted
             /\ tmpfile' = tmpfile )
      /\ xpc # "raised" ]_vars

\* The first header of the stream had another magic: the decoding has ended
\* with 110 bytes read and no file.
C16_Witness ==
  /\ xpc = "raised"
  /\ xerr = "NotImplementedError: CPIO format"
  /\ tell = cpio_struct_size
  /\ extracted = << >>
  /\ Len(stream_bytes) > cpio_struct_size

\* The archive is a sequence of binary-header entries followed by the
\* trailer, and nothing else.
ValidArchive(a) ==
  /\ a.extra = << >>
  /\ a.records # << >>
  /\ a.records[Len(a.records)] = TrailerRecord
  /\ \A i \in 1..(Len(a.records) - 1) : a.records[i] \in Entries

\* No two entries of the archive have the same name.
DistinctNames(a) ==
  \A i, j \in DOMAIN a.records :
    a.records[i].filename = a.records[j].filename => i = j

\* The member name "<name>-<md5>" of a file "{md5}-{name}.rpm" of destdir.
FileNameOf(path) ==
  SubSeq(path, Md5Len + 2, Len(path) - 4) \o << "-" >> \o SubSeq(path, 1, Md5Len)

\* The entries decoded: the names and the contents of the files, in order.
Decoded ==
  [ i \in DOMAIN extracted |->
      Record(Magic, FileNameOf(extracted[i].path), extracted[i].data) ]

\* The decoding of the stream does not fail, and when it has returned the
\* files are the entries of the archive and encode to the same bytes.
RoundTrip ==
  /\ xpc # "raised"
  /\ xpc = "returned" =>
       /\ Append(Decoded, TrailerRecord) = archive.records
       /\ Bytes([ records |-> Append(Decoded, TrailerRecord), extra |-> << >> ])
            = stream_bytes

\* C17, as stated: every valid archive is decoded to its entries, names and
\* payloads, and the entries encode to the same stream again.
C17_RoundTrip == ValidArchive(archive) => RoundTrip

\* C17, amended: so it is for every valid archive whose entries have
\* pairwise distinct names (destdir holding none of them before).
C17_RoundTripDistinctNames ==
  (ValidArchive(archive) /\ DistinctNames(archive)) => RoundTrip

\* An archive of two entries has been decoded, with payloads of 1 and 3
\* modulo 4 bytes and names of different lengths modulo 4.
C17_Witness ==
  /\ xpc = "returned"
  /\ Len(extracted) = 2
  /\ extracted[1].size % 4 = 1
  /\ extracted[2].size % 4 = 3
  /\ Len(extracted[1].path) % 4 # Len(extracted[2].path) % 4

(***************************************************************************)
(* Claims on extract_update_section                                        *)
(***************************************************************************)

\* The first line of the file that mentions the new version, and the first
\* heading of the old version after it ("<Name> <oldv> (<date>)"); 0: none.
NewVersionLine ==
  IF \E i \in DOMAIN infile : Contains(Decode(infile[i]), newv)
    THEN CHOOSE i \in DOMAIN infile :
           /\ Contains(Decode(infile[i]), newv)
           /\ \A j \in 1..(i - 1) : ~Contains(Decode(infile[j]), newv)
    ELSE 0

OldVersionHeading ==
  LET after == { j \in DOMAIN infile :
                   /\ j > NewVersionLine
                   /\ infile[j] \in { OldHeading, OldHeadingPkg } }
  IN IF NewVersionLine # 0 /\ after # {}
       THEN CHOOSE j \in after : \A k \in after : j <= k
       ELSE 0

\* The text of the lines i..j of the file.
RECURSIVE TextOf(_, _)
TextOf(i, j) ==
  IF i > j THEN << >> ELSE Decode(infile[i]) \o TextOf(i + 1, j)

\* C18: for a file with a line that mentions the new version and, after it,
\* a heading of the old version, extract_update_section returns the lines
\* from the former up to the line before the latter: no line before the
\* new-version line, and no line at or after the old-version heading.
C18_SectionBetweenVersions ==
  (upc = "returned" /\ OldVersionHeading # 0)
    => update_section = TextOf(NewVersionLine, OldVersionHeading - 1)

(***************************************************************************)
(* The requests of one run                                                 *)
(***************************************************************************)

\* C21: in one run the _buildenv of a target is requested at most once,
\* whatever the order of the pops and however many <bdep> elements resolve
\* to the target; when the run returns, it has been requested exactly once
\* for every target of the returned set, and for no other.
C21_FetchedOncePerTarget ==
  /\ \A t \in Targets : fetches[t] <= 1
  /\ pc = "returned" =>
       \A t \in Targets : fetches[t] = (IF t \in expanded_prjpkg THEN 1 ELSE 0)

\* A run has returned a set with a target that two other targets of the set
\* and the target itself depend on.
C21_Witness ==
  /\ pc = "returned"
  /\ \E t, u \in expanded_prjpkg :
       /\ t # u
       /\ t \in Successors(t)
       /\ t \in Successors(u)
       /\ fetches[t] = 1

\* C23: when the binary of a <bdep> is looked up in BIN2PKG, the
\* _builddepinfo of the <bdep>'s own (project, repository) has been loaded,
\* also when the project was seen in the run with another repository.
C23_OwnDepInfoLoaded ==
  [][ (pc = "edges" /\ bdeps # << >> /\ raised' # "HTTPError")
        => <<Head(bdeps).project, Head(bdeps).repository>> \in gpd_cache' ]_vars

(***************************************************************************)
(* _mirror: the order of its steps and what a failure leaves behind        *)
(***************************************************************************)

\* The step of p is an exception that leaves _mirror from the request of a
\* batch (line 132) or from extract_cpio_stream (line 139).
DownloadFails(p) ==
  /\ mpc[p] \in { "download", "extract" }
  /\ mpc'[p] = "raised"

\* The file names of the listing, as line 105 builds them.
ListedFiles == { ListedBins[i].file : i \in DOMAIN ListedBins }

\* C24: in one mirror call every os.unlink of a stale file comes before the
\* first request of a batch, and a failure undoes nothing: when the request
\* of a batch or the extraction raises, the files the call unlinked stay
\* unlinked and the files it linked stay in destdir, so that destdir holds no
\* *.rpm file that the listing lacks (it may lack files of the listing).
C24_NothingRolledBack ==
  [][ \A p \in Procs :
        /\ (unlinked'[p] # unlinked[p] /\ unlinked'[p] # {}) => requests[p] = 0
        /\ requests'[p] > requests[p] => to_delete[p] = {}
        /\ DownloadFails(p) =>
             /\ unlinked[p] \cap destdir' = {}
             /\ linked[p] \subseteq destdir'
             /\ \A f \in destdir' : f.suffix = ".rpm" => f \in ListedFiles ]_vars

\* A call that unlinked a stale file and linked a header has failed in the
\* download, and a file of the listing is missing from destdir.
C24_Witness ==
  \E p \in Procs :
    /\ mpc[p] = "raised"
    /\ exc[p] \in { "HTTPError", "RuntimeError", "NotImplementedError", "OSError" }
    /\ requests[p] > 0
    /\ unlinked[p] # {}
    /\ linked[p] # {}
    /\ unlinked[p] \cap destdir = {}
    /\ linked[p] \subseteq destdir
    /\ MissingBins(destdir, ListedBins) # << >>

(***************************************************************************)
(* The batches of the downloads                                            *)
(***************************************************************************)

\* The number of times the requests sent so far name the binary b.
TimesNamed(b) ==
  Cardinality({ ij \in { <<i, j>> : i \in DOMAIN queries, j \in 1..50 } :
                  /\ ij[2] <= Len(queries[ij[1]])
                  /\ queries[ij[1]][ij[2]] = b })

\* C22: with n binaries queued for download, no request names more than 50
\* binaries and none names a binary twice, no binary is named by two
\* requests, and no request is sent when n = 0; when _mirror returns it has
\* sent ceil(n/50) requests and every queued binary is named by exactly one.
C22_BatchesOfFifty ==
  LET n == Len(binaries)
  IN /\ \A i \in DOMAIN queries : Len(queries[i]) \in 1..50
     /\ \A b \in 1..n : TimesNamed(b) <= 1
     /\ n = 0 => queries = << >>
     /\ bpc = "returned" =>
          /\ Len(queries) = (n + 49) \div 50
          /\ \A b \in 1..n : TimesNamed(b) = 1

\* _mirror has returned after three requests: two of 50 binaries and one of
\* the one binary left.
C22_Witness ==
  /\ bpc = "returned"
  /\ Len(binaries) = 101
  /\ Len(queries) = 3
  /\ Len(queries[1]) = 50
  /\ Len(queries[2]) = 50
  /\ queries[3] = << 101 >>

====
